---- MODULE Spec2Model ----
(***************************************************************************)
(* nanomotion: the streaming stop-motion generation protocol.              *)
(*                                                                         *)
(*   server  src/app/api/stop-motion/route.ts   POST                       *)
(*   remote  lib/ai                             nanobanana,                *)
(*                                              generatePosesFromImage     *)
(*   client  src/app/page.tsx                   generateAnimation          *)
(*                                                                         *)
(* Text is modelled as TLA+ strings, character by character.  The text     *)
(* alphabet is ASCII plus the one two-byte character "é"; on the wire a    *)
(* byte is written as its Latin-1 character, so "é" travels as "Ã©".       *)
(* JavaScript values are tagged records (Undefined, Null, Str, Obj, Arr).  *)
(* One action is one synchronous run of the code between two awaits.       *)
(***************************************************************************)
EXTENDS Integers, Sequences, FiniteSets, TLC

\* ---------------------------------------------------------------- bounds
MaxPoses == 2
MaxChunk == 2

\* ------------------------------------------------------------ JS values
Undefined == [t |-> "undefined"]
Null == [t |-> "null"]
Str(s) == [t |-> "string", s |-> s]
Obj(ks, vs) == [t |-> "object", k |-> ks, v |-> vs]
Arr(es) == [t |-> "array", e |-> es]

\* obj.key : the value of the last property named key, undefined when the
\* property is absent or obj is a primitive; the caller handles null/undefined.
Get(obj, key) ==
  IF obj.t # "object" THEN Undefined
  ELSE LET hits == {i \in 1..Len(obj.k) : obj.k[i] = key}
       IN IF hits = {} THEN Undefined
          ELSE obj.v[CHOOSE i \in hits : \A j \in hits : j <= i]

\* JavaScript truthiness
Truthy(v) ==
  CASE v.t = "undefined" -> FALSE
    [] v.t = "null" -> FALSE
    [] v.t = "string" -> v.s # ""
    [] OTHER -> TRUE

\* `${v}` : string conversion inside a template literal
ToStr(v) ==
  CASE v.t = "undefined" -> "undefined"
    [] v.t = "null" -> "null"
    [] v.t = "string" -> v.s
    [] v.t = "array" -> IF v.e = <<>> THEN "" ELSE "[object Object]"
    [] OTHER -> "[object Object]"

\* --------------------------------------------------------- text helpers
Ch(s, i) == SubSeq(s, i, i)

IsWs(c) == c \in {" ", "\n", "\t", "\r"}

\* the first position of s that holds one of the characters cs, 0 if none
FirstOf(s, cs) ==
  LET hits == {i \in 1..Len(s) : Ch(s, i) \in cs}
  IN IF hits = {} THEN 0 ELSE CHOOSE i \in hits : \A j \in hits : i <= j

\* s.indexOf(d) with 1-based positions, 0 when d does not occur
IndexOf(s, d) ==
  LET hits == {i \in 1..(Len(s) - Len(d) + 1) :
                 Ch(s, i) = Ch(d, 1) /\ SubSeq(s, i, i + Len(d) - 1) = d}
  IN IF hits = {} THEN 0 ELSE CHOOSE i \in hits : \A j \in hits : i <= j

RECURSIVE SplitAt(_, _, _, _)
\* the pieces of s from position from on, cut at the leftmost occurrences,
\* one after the other, of a separator of length n that occurs at hits
SplitAt(s, n, hits, from) ==
  LET next == {i \in hits : i >= from}
  IN IF next = {} THEN <<SubSeq(s, from, Len(s))>>
     ELSE LET i == CHOOSE i \in next : \A j \in next : i <= j
          IN <<SubSeq(s, from, i - 1)>> \o SplitAt(s, n, hits, i + n)

\* String.prototype.split with a non-empty separator
Split(s, d) ==
  LET hits == {i \in 1..(Len(s) - Len(d) + 1) :
                 Ch(s, i) = Ch(d, 1) /\ SubSeq(s, i, i + Len(d) - 1) = d}
  IN SplitAt(s, Len(d), hits, 1)

RECURSIVE TrimStart(_)
TrimStart(s) ==
  IF s # "" /\ IsWs(Ch(s, 1)) THEN TrimStart(SubSeq(s, 2, Len(s))) ELSE s

RECURSIVE TrimEnd(_)
TrimEnd(s) ==
  IF s # "" /\ IsWs(Ch(s, Len(s))) THEN TrimEnd(SubSeq(s, 1, Len(s) - 1)) ELSE s

\* String.prototype.trim
Trim(s) == TrimEnd(TrimStart(s))

\* ------------------------------------------------------- JSON.stringify
\* EscapeChar leaving a line feed as it is
EscapeCharRaw(c) ==
  CASE c = "\"" -> "\\\""
    [] c = "\\" -> "\\\\"
    [] c = "\t" -> "\\t"
    [] c = "\r" -> "\\r"
    [] OTHER -> c

\* the JSON escape of one character
EscapeChar(c) ==
  CASE c = "\"" -> "\\\""
    [] c = "\\" -> "\\\\"
    [] c = "\n" -> "\\n"
    [] c = "\t" -> "\\t"
    [] c = "\r" -> "\\r"
    [] OTHER -> c

RECURSIVE Escape(_)
\* every character of s escaped; the characters up to the first one that
\* needs an escape are copied in one piece
Escape(s) ==
  LET i == FirstOf(s, {"\"", "\\", "\n", "\t", "\r"})
  IN IF i = 0 THEN s
     ELSE SubSeq(s, 1, i - 1) \o EscapeChar(Ch(s, i)) \o Escape(SubSeq(s, i + 1, Len(s)))

\* JSON text of a string: quoted, with quote, backslash and control
\* characters escaped
Quote(s) == "\"" \o Escape(s) \o "\""

RECURSIVE JSONStringify(_)
RECURSIVE StringifyMembers(_, _, _, _)
RECURSIVE StringifyElements(_, _)

\* the members of an object from property i on; a property whose value is
\* undefined is left out
StringifyMembers(ks, vs, i, first) ==
  IF i > Len(ks) THEN ""
  ELSE IF vs[i].t = "undefined" THEN StringifyMembers(ks, vs, i + 1, first)
  ELSE (IF first THEN "" ELSE ",") \o Quote(ks[i]) \o ":" \o JSONStringify(vs[i])
       \o StringifyMembers(ks, vs, i + 1, FALSE)

StringifyElements(es, i) ==
  IF i > Len(es) THEN ""
  ELSE (IF i = 1 THEN "" ELSE ",")
       \o (IF es[i].t = "undefined" THEN "null" ELSE JSONStringify(es[i]))
       \o StringifyElements(es, i + 1)

JSONStringify(v) ==
  CASE v.t = "string" -> Quote(v.s)
    [] v.t = "null" -> "null"
    [] v.t = "object" -> "{" \o StringifyMembers(v.k, v.v, 1, TRUE) \o "}"
    [] v.t = "array" -> "[" \o StringifyElements(v.e, 1) \o "]"

\* ------------------------------------------------------------ JSON.parse
\* A parse result is [ok, v, i]: success, the value, the next position.
\* The grammar covers strings, objects, arrays and null; any other token is
\* a SyntaxError, as is a raw control character inside a string.
Fail == [ok |-> FALSE, v |-> Undefined, i |-> 0]
Ok(v, i) == [ok |-> TRUE, v |-> v, i |-> i]

RECURSIVE SkipWs(_, _)
SkipWs(s, i) == IF i <= Len(s) /\ IsWs(Ch(s, i)) THEN SkipWs(s, i + 1) ELSE i

Unescape(c) ==
  CASE c = "\"" -> "\""
    [] c = "\\" -> "\\"
    [] c = "/" -> "/"
    [] c = "n" -> "\n"
    [] c = "t" -> "\t"
    [] c = "r" -> "\r"
    [] OTHER -> ""

RECURSIVE ParseChars(_, _, _)
\* the characters of a string literal from position i (after the opening
\* quote) up to the closing quote, appended to acc; the characters up to the
\* next quote, backslash or control character are copied in one piece
ParseChars(s, i, acc) ==
  LET n == FirstOf(SubSeq(s, i, Len(s)), {"\"", "\\", "\n", "\t", "\r"})
      j == i + n - 1
      run == acc \o SubSeq(s, i, j - 1)
  IN IF n = 0 THEN Fail
     ELSE IF Ch(s, j) = "\"" THEN Ok(Str(run), j + 1)
     ELSE IF Ch(s, j) = "\\"
          THEN IF j + 1 > Len(s) \/ Unescape(Ch(s, j + 1)) = "" THEN Fail
               ELSE ParseChars(s, j + 2, run \o Unescape(Ch(s, j + 1)))
     ELSE Fail

RECURSIVE ParseValue(_, _)
RECURSIVE ParseMembers(_, _, _, _)
RECURSIVE ParseElements(_, _, _)

\* members of an object, position i is at the start of a member
ParseMembers(s, i, ks, vs) ==
  LET j == SkipWs(s, i)
  IN IF j > Len(s) \/ Ch(s, j) # "\"" THEN Fail
     ELSE LET key == ParseChars(s, j + 1, "")
          IN IF ~key.ok THEN Fail
             ELSE LET c == SkipWs(s, key.i)
                  IN IF c > Len(s) \/ Ch(s, c) # ":" THEN Fail
                     ELSE LET val == ParseValue(s, c + 1)
                          IN IF ~val.ok THEN Fail
                             ELSE LET e == SkipWs(s, val.i)
                                      ks2 == Append(ks, key.v.s)
                                      vs2 == Append(vs, val.v)
                                  IN IF e > Len(s) THEN Fail
                                     ELSE IF Ch(s, e) = "}" THEN Ok(Obj(ks2, vs2), e + 1)
                                     ELSE IF Ch(s, e) = "," THEN ParseMembers(s, e + 1, ks2, vs2)
                                     ELSE Fail

\* elements of an array, position i is at the start of an element
ParseElements(s, i, es) ==
  LET val == ParseValue(s, i)
  IN IF ~val.ok THEN Fail
     ELSE LET e == SkipWs(s, val.i)
              es2 == Append(es, val.v)
          IN IF e > Len(s) THEN Fail
             ELSE IF Ch(s, e) = "]" THEN Ok(Arr(es2), e + 1)
             ELSE IF Ch(s, e) = "," THEN ParseElements(s, e + 1, es2)
             ELSE Fail

ParseValue(s, i) ==
  LET j == SkipWs(s, i)
  IN IF j > Len(s) THEN Fail
     ELSE LET c == Ch(s, j)
          IN IF c = "\"" THEN ParseChars(s, j + 1, "")
             ELSE IF c = "{"
                  THEN LET m == SkipWs(s, j + 1)
                       IN IF m <= Len(s) /\ Ch(s, m) = "}" THEN Ok(Obj(<<>>, <<>>), m + 1)
                          ELSE ParseMembers(s, j + 1, <<>>, <<>>)
             ELSE IF c = "["
                  THEN LET m == SkipWs(s, j + 1)
                       IN IF m <= Len(s) /\ Ch(s, m) = "]" THEN Ok(Arr(<<>>), m + 1)
                          ELSE ParseElements(s, j + 1, <<>>)
             ELSE IF SubSeq(s, j, j + 3) = "null" THEN Ok(Null, j + 4)
             ELSE Fail

\* JSON.parse(s): [ok |-> TRUE, v |-> value], or ok = FALSE for a SyntaxError
JSONParse(s) ==
  LET r == ParseValue(s, 1)
  IN IF r.ok /\ SkipWs(s, r.i) > Len(s) THEN r ELSE Fail

\* ------------------------------------------- TextEncoder / TextDecoder
RECURSIVE EncodeUtf8(_)
\* TextEncoder.encode: the UTF-8 bytes of a text; ASCII runs are copied
EncodeUtf8(text) ==
  LET i == FirstOf(text, {"é"})
  IN IF i = 0 THEN text
     ELSE SubSeq(text, 1, i - 1) \o "Ã©" \o EncodeUtf8(SubSeq(text, i + 1, Len(text)))

RECURSIVE DecodeBytes(_, _)
\* The text of bytes b; ASCII runs are copied.  A lead byte followed by its
\* continuation byte is "é"; a lead byte at the very end is held back when
\* stream is TRUE; any other lead or continuation byte is invalid and
\* becomes U+FFFD.
DecodeBytes(b, stream) ==
  LET i == FirstOf(b, {"Ã", "©"})
      n == Len(b)
  IN IF i = 0 THEN [text |-> b, pending |-> ""]
     ELSE IF Ch(b, i) = "Ã" /\ i = n /\ stream
          THEN [text |-> SubSeq(b, 1, i - 1), pending |-> "Ã"]
     ELSE LET two == Ch(b, i) = "Ã" /\ i < n /\ Ch(b, i + 1) = "©"
              rest == DecodeBytes(SubSeq(b, IF two THEN i + 2 ELSE i + 1, n), stream)
          IN [text |-> SubSeq(b, 1, i - 1) \o (IF two THEN "é" ELSE "�") \o rest.text,
              pending |-> rest.pending]

\* decoder.decode(value, { stream: true }) of a decoder holding `pending`
Utf8Decode(pending, value) == DecodeBytes(pending \o value, TRUE)

\* ------------------------------------------------------ wire protocol
Delim == "\n---CHUNK_END---\n"

\* JSON.stringify({ type, data }) + "\n---CHUNK_END---\n"
Serialize(type, data) ==
  JSONStringify(Obj(<<"type", "data">>, <<Str(type), data>>)) \o Delim

\* encoder.encode(...) of a serialized event
EncodeEvent(type, data) == EncodeUtf8(Serialize(type, data))

\* -------------------------------------------------- messages and inputs
CompleteData == "Processing finished"
NoImageBody == JSONStringify(Obj(<<"error">>, <<Str("No image provided")>>))
UnknownError == "Unknown error"
\* messages of the errors the runtime raises
SyntaxErrorMessage == "Unexpected end of JSON input"
NullPoseMessage == "Cannot read properties of null (reading 'pose')"
ControllerClosedMessage == "Invalid state: Controller is already closed"

StartingProgress == "Starting generation..."
PosesProgress == "Poses generated! Creating animation frames..."
FrameProgress == "Animation frame generated!"
CompleteProgress == "Animation generation complete!"
ErrorProgress(message) == "Error: " \o message
FetchFailedMessage(status, errorText) ==
  "Failed to generate animation: " \o status \o " " \o errorText

\* no file selected, no request made, no response yet
NoFile == [name |-> "", type |-> ""]
NoRequest == [from |-> "", image |-> ""]
NoResponse == [status |-> "", body |-> ""]

\* the file the user picks
SourceFile == [name |-> "hero.png", type |-> "image/png"]

PoseName(i) == IF i = 1 THEN "arms raised" ELSE IF i = 2 THEN "plié" ELSE "arms lowered"

\* the planner's JSON text for n poses
PosesText(n) ==
  JSONStringify(Arr([i \in 1..n |-> Obj(<<"pose">>, <<Str(PoseName(i))>>)]))

\* what generatePosesFromImageBuffer can resolve to (response.text)
PlannerOutputs ==
  {Str(PosesText(n)) : n \in 0..MaxPoses}
  \cup {Undefined,
        Str("{\"pose\":\"arms raised\"}"),
        Str("[{\"pose\":"),
        Str("[null]"),
        Str("[]\n---CHUNK_END---\n[]")}

\* what the planner call can throw: an Error with a message, or a non-Error
PlannerThrown ==
  {[isError |-> TRUE, message |-> "quota exceeded"],
   [isError |-> TRUE, message |-> "bad \"é\"\n---CHUNK_END---\n"],
   [isError |-> FALSE, message |-> ""]}

\* what the renderer call can throw
RendererThrown ==
  {[isError |-> TRUE, message |-> "bad \"é\"\n---CHUNK_END---\n"]}

TextPart(s) == [text |-> Str(s), inlineData |-> Undefined]
ImagePart(data, mimeType) ==
  [text |-> Undefined, inlineData |-> [data |-> data, mimeType |-> mimeType]]

\* response.candidates[0].content.parts of the image model
RendererResponses ==
  {<<ImagePart(Str("QQ=="), Str("image/jpeg"))>>,
   <<TextPart("here you go"), ImagePart(Str("Qg=="), Undefined)>>,
   <<ImagePart(Str(""), Str("image/png"))>>,
   <<TextPart("cannot draw that")>>}

\* ----------------------------------------------------------- variables
VARIABLES
  request,            \* the HTTP request [from, image]: who sent it, its image field
  response,           \* the HTTP response [status, body]
  srvPc,              \* POST: "idle", "planner", "renderer", "done", "rejected"
  imgBuffer,          \* POST: buffer, the bytes of the uploaded image
  posesJson,          \* POST: the elements of posesJson when it is an array
  poseIdx,            \* POST: position of the for..of loop in posesJson
  stream,             \* the ReadableStream: "none", "readable", "closed", "cancelled"
  net,                \* bytes enqueued and not yet read by the client
  sent,               \* history: every byte enqueued
  emitted,            \* history: every event enqueued, [type, pose, data]
  calls,              \* history: every remote call, [fn, pose, prompt, image, after]:
                      \* after is the number of events enqueued before the call
  plannerResult,      \* history: [state, poses] of the planner call
  renderResults,      \* history: outcome of each nanobanana call
  cliPc,              \* generateAnimation: "idle", "fetch", "reading", "finished", "gone"
  lastSelectedFile,
  isGenerating,
  generationProgress,
  generatedPoses,
  generatedImages,
  frames,
  buffer,             \* generateAnimation: let buffer
  decoderPending,     \* bytes the TextDecoder holds back
  timers,             \* pending setTimeout(() => setGenerationProgress(""))
  idGen,              \* number of frame ids made so far
  received,           \* history: every byte the reader returned
  dispatched,         \* history: every payload JSON.parse returned
  currentFrame,       \* index into frames of the frame on screen, from 0
  isPlaying,
  pendingCursor       \* <<v>> while the interval's setCurrentFrame awaits its
                      \* render, v the value currentFrame takes then

srvVars == <<request, response, srvPc, imgBuffer, posesJson, poseIdx, stream,
             net, sent, emitted, calls, plannerResult, renderResults>>
cliVars == <<cliPc, lastSelectedFile, isGenerating, generationProgress,
             generatedPoses, generatedImages, frames, buffer, decoderPending,
             timers, idGen, received, dispatched, currentFrame, isPlaying,
             pendingCursor>>
playVars == <<currentFrame, isPlaying, pendingCursor>>
vars == <<srvVars, cliVars>>

\* --------------------------------------------------------------- server
\* The state the stream's start() callback works on, as one record.
Srv ==
  [pc |-> srvPc, posesJson |-> posesJson, poseIdx |-> poseIdx, stream |-> stream,
   net |-> net, sent |-> sent, emitted |-> emitted, calls |-> calls]

\* controller.enqueue throws a TypeError unless the stream is readable
CanEnqueue(s) == s.stream = "readable"

\* controller.enqueue(encoder.encode(JSON.stringify({type, data}) + delimiter))
\* on a readable stream; pose is the pose the event belongs to (0: none)
Enqueue(s, type, data, pose) ==
  LET bytes == EncodeEvent(type, data)
  IN [s EXCEPT !.net = @ \o bytes, !.sent = @ \o bytes,
               !.emitted = Append(@, [type |-> type, pose |-> pose, data |-> data])]

\* error instanceof Error ? error.message : "Unknown error"
MessageOf(e) == IF e.isError THEN e.message ELSE UnknownError

\* Catch without controller.close()
CatchNoClose(s, message) ==
  IF CanEnqueue(s)
  THEN [Enqueue(s, "error", Str(message), 0) EXCEPT !.pc = "done"]
  ELSE [s EXCEPT !.pc = "done"]

\* the catch block: enqueue the error event and close.  When the enqueue
\* itself throws, start() rejects and nothing is written.
Catch(s, message) ==
  IF CanEnqueue(s)
  THEN [Enqueue(s, "error", Str(message), 0) EXCEPT !.stream = "closed", !.pc = "done"]
  ELSE [s EXCEPT !.pc = "done"]

\* Finish closing the stream without the complete event
FinishSilent(s) ==
  IF CanEnqueue(s)
  THEN [s EXCEPT !.stream = "closed", !.pc = "done"]
  ELSE Catch(s, ControllerClosedMessage)

\* "End the stream": the complete event and controller.close()
Finish(s) ==
  IF CanEnqueue(s)
  THEN [Enqueue(s, "complete", Str(CompleteData), 0) EXCEPT !.stream = "closed", !.pc = "done"]
  ELSE Catch(s, ControllerClosedMessage)

\* RenderLoop handing the latest generated frame to the next call
RenderLoopChained(s, i) ==
  IF i > Len(s.posesJson) THEN Finish(s)
  ELSE LET pose == s.posesJson[i]
           last == s.emitted[Len(s.emitted)]
       IN IF pose.t = "null" THEN Catch(s, NullPoseMessage)
          ELSE [s EXCEPT !.pc = "renderer", !.poseIdx = i,
                         !.calls = Append(@, [fn |-> "nanobanana", pose |-> i,
                                              prompt |-> ToStr(Get(pose, "pose")),
                                              image |-> IF last.type = "nanobanana"
                                                        THEN ToStr(Get(last.data, "base64ImageData"))
                                                        ELSE imgBuffer,
                                              after |-> Len(s.emitted)])]

\* RenderLoop starting the calls for element i and all later ones at once
RenderLoopFanOut(s, i) ==
  IF i > Len(s.posesJson) THEN Finish(s)
  ELSE LET pose == s.posesJson[i]
       IN IF pose.t = "null" THEN Catch(s, NullPoseMessage)
          ELSE [s EXCEPT !.pc = "renderer", !.poseIdx = i,
                         !.calls = @ \o [j \in 1..(Len(s.posesJson) - i + 1) |->
                                           [fn |-> "nanobanana", pose |-> i + j - 1,
                                            prompt |-> ToStr(Get(s.posesJson[i + j - 1], "pose")),
                                            image |-> imgBuffer,
                                            after |-> Len(s.emitted)]]]

\* The for..of loop at element i: build the prompt from pose.pose and start
\* the nanobanana call, or fall out of the loop.  Reading .pose of null
\* throws a TypeError.  Of the prompt only the interpolated pose is kept.
RenderLoop(s, i) ==
  IF i > Len(s.posesJson) THEN Finish(s)
  ELSE LET pose == s.posesJson[i]
       IN IF pose.t = "null" THEN Catch(s, NullPoseMessage)
          ELSE [s EXCEPT !.pc = "renderer", !.poseIdx = i,
                         !.calls = Append(@, [fn |-> "nanobanana", pose |-> i,
                                              prompt |-> ToStr(Get(pose, "pose")),
                                              image |-> imgBuffer,
                                              after |-> Len(s.emitted)])]

\* AfterPlanner without the poses event
AfterPlannerNoPoses(s, poses) ==
  IF ~CanEnqueue(s) THEN Catch(s, ControllerClosedMessage)
  ELSE LET parsed == JSONParse(IF poses.t = "undefined" THEN "[]" ELSE poses.s)
       IN IF ~parsed.ok THEN Catch(s, SyntaxErrorMessage)
          ELSE IF parsed.v.t = "array"
               THEN RenderLoop([s EXCEPT !.posesJson = parsed.v.e], 1)
          ELSE Finish(s)

\* AfterPlanner with a failed JSON.parse taken as an empty pose list
AfterPlannerLenient(s, poses) ==
  IF ~CanEnqueue(s) THEN Catch(s, ControllerClosedMessage)
  ELSE LET s1 == Enqueue(s, "poses", poses, 0)
           parsed == JSONParse(IF poses.t = "undefined" THEN "[]" ELSE poses.s)
       IN IF ~parsed.ok THEN Finish(s1)
          ELSE IF parsed.v.t = "array"
               THEN RenderLoop([s1 EXCEPT !.posesJson = parsed.v.e], 1)
          ELSE Finish(s1)

\* AfterPlanner with a parsed value that is not an array raising an error
AfterPlannerStrict(s, poses) ==
  IF ~CanEnqueue(s) THEN Catch(s, ControllerClosedMessage)
  ELSE LET s1 == Enqueue(s, "poses", poses, 0)
           parsed == JSONParse(IF poses.t = "undefined" THEN "[]" ELSE poses.s)
       IN IF ~parsed.ok THEN Catch(s1, SyntaxErrorMessage)
          ELSE IF parsed.v.t = "array"
               THEN RenderLoop([s1 EXCEPT !.posesJson = parsed.v.e], 1)
          ELSE Catch(s1, "posesJson is not iterable")

\* AfterPlanner with JSON.parse before the poses event
AfterPlannerParseFirst(s, poses) ==
  IF ~CanEnqueue(s) THEN Catch(s, ControllerClosedMessage)
  ELSE LET parsed == JSONParse(IF poses.t = "undefined" THEN "[]" ELSE poses.s)
       IN IF ~parsed.ok THEN Catch(s, SyntaxErrorMessage)
          ELSE LET s1 == Enqueue(s, "poses", poses, 0)
               IN IF parsed.v.t = "array"
                  THEN RenderLoop([s1 EXCEPT !.posesJson = parsed.v.e], 1)
                  ELSE Finish(s1)

\* The run from the resolution of generatePosesFromImageBuffer to the next
\* await: the poses event, JSON.parse(poses ?? "[]"), Array.isArray.
AfterPlanner(s, poses) ==
  IF ~CanEnqueue(s) THEN Catch(s, ControllerClosedMessage)
  ELSE LET s1 == Enqueue(s, "poses", poses, 0)
           parsed == JSONParse(IF poses.t = "undefined" THEN "[]" ELSE poses.s)
       IN IF ~parsed.ok THEN Catch(s1, SyntaxErrorMessage)
          ELSE IF parsed.v.t = "array"
               THEN RenderLoop([s1 EXCEPT !.posesJson = parsed.v.e], 1)
          ELSE Finish(s1)

RECURSIVE FirstImage(_, _)
\* nanobanana's loop over the parts: a part with text is logged, the first
\* part with inlineData and no text is returned as the image
FirstImage(parts, i) ==
  IF i > Len(parts) THEN Undefined
  ELSE IF Truthy(parts[i].text) THEN FirstImage(parts, i + 1)
  ELSE IF parts[i].inlineData # Undefined
       THEN [type |-> "image", base64ImageData |-> parts[i].inlineData.data,
             contentType |-> parts[i].inlineData.mimeType]
  ELSE FirstImage(parts, i + 1)

\* nanobanana(prompt, imageBuffer), given the parts the model answered with
Nanobanana(parts) ==
  LET img == FirstImage(parts, 1)
  IN IF img # Undefined THEN img ELSE [type |-> "text"]

\* AfterRenderer with a result that is not an image raising an error
AfterRendererTextFails(s, nanobananaResult) ==
  IF nanobananaResult.type = "image"
  THEN IF ~CanEnqueue(s) THEN Catch(s, ControllerClosedMessage)
       ELSE RenderLoop(
              Enqueue(s, "nanobanana",
                      Obj(<<"type", "base64ImageData", "contentType">>,
                          <<Str("image"), nanobananaResult.base64ImageData,
                            nanobananaResult.contentType>>),
                      s.poseIdx),
              s.poseIdx + 1)
  ELSE Catch(s, "No image generated")

\* AfterRenderer starting the next call before it enqueues the frame
AfterRendererCallFirst(s, nanobananaResult) ==
  IF nanobananaResult.type = "image"
  THEN IF ~CanEnqueue(s) THEN Catch(s, ControllerClosedMessage)
       ELSE LET frame == Obj(<<"type", "base64ImageData", "contentType">>,
                             <<Str("image"), nanobananaResult.base64ImageData,
                               nanobananaResult.contentType>>)
                s1 == RenderLoop(s, s.poseIdx + 1)
            IN IF s1.pc = "renderer"
               THEN Enqueue(s1, "nanobanana", frame, s.poseIdx)
               ELSE RenderLoop(Enqueue(s, "nanobanana", frame, s.poseIdx), s.poseIdx + 1)
  ELSE RenderLoop(s, s.poseIdx + 1)

\* The run from the resolution of nanobanana to the next await: the frame
\* event when the result is an image, then the next loop iteration.
AfterRenderer(s, nanobananaResult) ==
  IF nanobananaResult.type = "image"
  THEN IF ~CanEnqueue(s) THEN Catch(s, ControllerClosedMessage)
       ELSE RenderLoop(
              Enqueue(s, "nanobanana",
                      Obj(<<"type", "base64ImageData", "contentType">>,
                          <<Str("image"), nanobananaResult.base64ImageData,
                            nanobananaResult.contentType>>),
                      s.poseIdx),
              s.poseIdx + 1)
  ELSE RenderLoop(s, s.poseIdx + 1)

\* the server variables take the values of record s
SetSrv(s) ==
  /\ srvPc' = s.pc
  /\ posesJson' = s.posesJson
  /\ poseIdx' = s.poseIdx
  /\ stream' = s.stream
  /\ net' = s.net
  /\ sent' = s.sent
  /\ emitted' = s.emitted
  /\ calls' = s.calls

\* SrvPOST without the test for the image
SrvPOSTNoCheck ==
  /\ request # NoRequest
  /\ srvPc = "idle"
  /\ response' = [status |-> "200", body |-> ""]
  /\ srvPc' = "planner"
  /\ imgBuffer' = request.image
  /\ stream' = "readable"
  /\ calls' = Append(calls, [fn |-> "generatePosesFromImageBuffer", pose |-> 0,
                             prompt |-> "12", image |-> request.image, after |-> 0])
  /\ UNCHANGED <<request, posesJson, poseIdx, net, sent, emitted, plannerResult, renderResults>>
  /\ UNCHANGED cliVars

\* POST up to the first remote call: 400 without an image, otherwise the
\* stream is opened, the response returned and the planner called
SrvPOST ==
  /\ request # NoRequest
  /\ srvPc = "idle"
  /\ IF request.image = ""
     THEN /\ response' = [status |-> "400", body |-> NoImageBody]
          /\ srvPc' = "rejected"
          /\ UNCHANGED <<imgBuffer, stream, calls>>
     ELSE /\ response' = [status |-> "200", body |-> ""]
          /\ srvPc' = "planner"
          /\ imgBuffer' = request.image
          /\ stream' = "readable"
          /\ calls' = Append(calls, [fn |-> "generatePosesFromImageBuffer", pose |-> 0,
                                     prompt |-> "12", image |-> request.image,
                                     after |-> 0])
  /\ UNCHANGED <<request, posesJson, poseIdx, net, sent, emitted, plannerResult, renderResults>>
  /\ UNCHANGED cliVars

\* generatePosesFromImageBuffer resolves
PlannerReturns ==
  /\ srvPc = "planner"
  /\ \E poses \in PlannerOutputs :
        /\ LET s == AfterPlanner(Srv, poses) IN SetSrv(s)
        /\ plannerResult' = [state |-> "returned", poses |-> poses]
  /\ UNCHANGED <<request, response, imgBuffer, renderResults>>
  /\ UNCHANGED cliVars

\* generatePosesFromImageBuffer rejects
PlannerThrows ==
  /\ srvPc = "planner"
  /\ \E e \in PlannerThrown : LET s == Catch(Srv, MessageOf(e)) IN SetSrv(s)
  /\ plannerResult' = [state |-> "threw", poses |-> Undefined]
  /\ UNCHANGED <<request, response, imgBuffer, renderResults>>
  /\ UNCHANGED cliVars

\* nanobanana resolves
RendererReturns ==
  /\ srvPc = "renderer"
  /\ \E parts \in RendererResponses :
        /\ LET s == AfterRenderer(Srv, Nanobanana(parts)) IN SetSrv(s)
        /\ renderResults' = Append(renderResults, Nanobanana(parts).type)
  /\ UNCHANGED <<request, response, imgBuffer, plannerResult>>
  /\ UNCHANGED cliVars

\* nanobanana rejects
RendererThrows ==
  /\ srvPc = "renderer"
  /\ \E e \in RendererThrown : LET s == Catch(Srv, MessageOf(e)) IN SetSrv(s)
  /\ renderResults' = Append(renderResults, "throw")
  /\ UNCHANGED <<request, response, imgBuffer, plannerResult>>
  /\ UNCHANGED cliVars

\* --------------------------------------------------------------- client
\* The state the read loop of generateAnimation works on, as one record.
Cli ==
  [generationProgress |-> generationProgress, generatedPoses |-> generatedPoses,
   generatedImages |-> generatedImages, frames |-> frames, timers |-> timers,
   idGen |-> idGen, dispatched |-> dispatched]

\* DataUrl with the content type fixed to image/png
DataUrlPng(contentType, base64ImageData) ==
  "data:image/png;base64," \o ToStr(base64ImageData)

\* `data:${contentType || 'image/png'};base64,${base64ImageData}`
DataUrl(contentType, base64ImageData) ==
  "data:" \o (IF Truthy(contentType) THEN ToStr(contentType) ELSE "image/png")
  \o ";base64," \o ToStr(base64ImageData)

\* OnFrame putting the new frame in front of the others
OnFramePrepend(c, d) ==
  LET c1 == [c EXCEPT !.generationProgress = FrameProgress]
  IN IF Truthy(d) /\ Get(d, "type") = Str("image") /\ Truthy(Get(d, "base64ImageData"))
     THEN LET contentType == Get(d, "contentType")
              dataUrl == DataUrl(contentType, Get(d, "base64ImageData"))
              newFrame == [id |-> c.idGen + 1, url |-> dataUrl,
                           type |-> IF Truthy(contentType) THEN ToStr(contentType)
                                    ELSE "image/png"]
          IN [c1 EXCEPT !.generatedImages = <<dataUrl>> \o @,
                        !.frames = <<newFrame>> \o @,
                        !.idGen = @ + 1]
     ELSE c1

\* case 'nanobanana'
OnFrame(c, d) ==
  LET c1 == [c EXCEPT !.generationProgress = FrameProgress]
  IN IF Truthy(d) /\ Get(d, "type") = Str("image") /\ Truthy(Get(d, "base64ImageData"))
     THEN LET contentType == Get(d, "contentType")
              dataUrl == DataUrl(contentType, Get(d, "base64ImageData"))
              newFrame == [id |-> c.idGen + 1, url |-> dataUrl,
                           type |-> IF Truthy(contentType) THEN ToStr(contentType)
                                    ELSE "image/png"]
          IN [c1 EXCEPT !.generatedImages = Append(@, dataUrl),
                        !.frames = Append(@, newFrame),
                        !.idGen = @ + 1]
     ELSE c1

\* switch (data.type): the state after the case ran and whether it threw
Switch(c, data) ==
  LET type == Get(data, "type")
  IN CASE type = Str("poses") ->
            [c |-> [c EXCEPT !.generationProgress = PosesProgress,
                             !.generatedPoses = Get(data, "data")],
             threw |-> FALSE]
       [] type = Str("nanobanana") -> [c |-> OnFrame(c, Get(data, "data")), threw |-> FALSE]
       [] type = Str("complete") ->
            [c |-> [c EXCEPT !.generationProgress = CompleteProgress, !.timers = @ + 1],
             threw |-> FALSE]
       [] type = Str("error") -> [c |-> c, threw |-> TRUE]
       [] OTHER -> [c |-> c, threw |-> FALSE]

\* The body of `for (const part of parts)`: trim, skip an empty line,
\* JSON.parse and switch inside try; the catch logs whatever was thrown (a
\* SyntaxError, a TypeError on null, the Error of an error event) and the
\* loop goes on.
ProcessPart(c, part) ==
  LET line == Trim(part)
  IN IF line = "" THEN c
     ELSE LET parsed == JSONParse(line)
          IN IF ~parsed.ok THEN c
             ELSE LET c1 == [c EXCEPT !.dispatched = Append(@, parsed.v)]
                  IN IF parsed.v.t = "null" THEN c1
                     ELSE Switch(c1, parsed.v).c

RECURSIVE ProcessPartsAbort(_, _, _)
\* ProcessParts leaving the loop at the first part JSON.parse rejects
ProcessPartsAbort(c, parts, i) ==
  IF i > Len(parts) THEN c
  ELSE IF Trim(parts[i]) # "" /\ ~JSONParse(Trim(parts[i])).ok THEN c
  ELSE ProcessPartsAbort(ProcessPart(c, parts[i]), parts, i + 1)

RECURSIVE ProcessParts(_, _, _)
ProcessParts(c, parts, i) ==
  IF i > Len(parts) THEN c ELSE ProcessParts(ProcessPart(c, parts[i]), parts, i + 1)

\* ReadChunk that empties the buffer instead of keeping the last part
ReadChunkDropTail(d, value) ==
  LET dec == Utf8Decode(d.pending, value)
      parts == Split(d.buffer \o dec.text, Delim)
  IN [buffer |-> "",
      pending |-> dec.pending,
      c |-> ProcessParts(d.c, SubSeq(parts, 1, Len(parts) - 1), 1)]

\* One pass of the while loop for a chunk `value`: decode, append to buffer,
\* split on the delimiter, keep the last part, process the others.
\* d is [buffer, pending, c]: the buffer, the decoder's held bytes, Cli.
ReadChunk(d, value) ==
  LET dec == Utf8Decode(d.pending, value)
      parts == Split(d.buffer \o dec.text, Delim)
  IN [buffer |-> parts[Len(parts)],
      pending |-> dec.pending,
      c |-> ProcessParts(d.c, SubSeq(parts, 1, Len(parts) - 1), 1)]

\* the client variables take the values of record d
SetCli(d) ==
  /\ buffer' = d.buffer
  /\ decoderPending' = d.pending
  /\ generationProgress' = d.c.generationProgress
  /\ generatedPoses' = d.c.generatedPoses
  /\ generatedImages' = d.c.generatedImages
  /\ frames' = d.c.frames
  /\ timers' = d.c.timers
  /\ idGen' = d.c.idGen
  /\ dispatched' = d.c.dispatched

\* handleFileSelection with an image file
HandleFileSelection ==
  /\ cliPc = "idle"
  /\ lastSelectedFile = NoFile
  /\ lastSelectedFile' = SourceFile
  /\ UNCHANGED <<cliPc, isGenerating, generationProgress, generatedPoses,
                 generatedImages, frames, buffer, decoderPending, timers, idGen,
                 received, dispatched>>
  /\ UNCHANGED srvVars
  /\ UNCHANGED playVars

\* GenerateAnimation emptying the frame list as well
GenerateAnimationResetsFrames ==
  /\ cliPc = "idle"
  /\ request = NoRequest
  /\ lastSelectedFile # NoFile
  /\ isGenerating' = TRUE
  /\ generationProgress' = StartingProgress
  /\ generatedPoses' = Null
  /\ generatedImages' = <<>>
  /\ frames' = <<>>
  /\ request' = [from |-> "page", image |-> lastSelectedFile.name]
  /\ cliPc' = "fetch"
  /\ UNCHANGED <<lastSelectedFile, buffer, decoderPending, timers, idGen,
                 received, dispatched>>
  /\ UNCHANGED <<response, srvPc, imgBuffer, posesJson, poseIdx, stream, net, sent,
                 emitted, calls, plannerResult, renderResults>>
  /\ UNCHANGED playVars

\* generateAnimation up to `await fetch`
GenerateAnimation ==
  /\ cliPc = "idle"
  /\ request = NoRequest
  /\ lastSelectedFile # NoFile
  /\ isGenerating' = TRUE
  /\ generationProgress' = StartingProgress
  /\ generatedPoses' = Null
  /\ generatedImages' = <<>>
  /\ request' = [from |-> "page", image |-> lastSelectedFile.name]
  /\ cliPc' = "fetch"
  /\ UNCHANGED <<lastSelectedFile, frames, buffer, decoderPending, timers, idGen,
                 received, dispatched>>
  /\ UNCHANGED <<response, srvPc, imgBuffer, posesJson, poseIdx, stream, net, sent,
                 emitted, calls, plannerResult, renderResults>>
  /\ UNCHANGED playVars

\* a caller other than the page posts a form without the image field
ApiPost ==
  /\ cliPc = "idle"
  /\ request = NoRequest
  /\ request' = [from |-> "api", image |-> ""]
  /\ UNCHANGED <<response, srvPc, imgBuffer, posesJson, poseIdx, stream, net, sent,
                 emitted, calls, plannerResult, renderResults>>
  /\ UNCHANGED cliVars

\* fetch resolves: a response that is not ok is thrown to the outer catch,
\* otherwise the reader and the decoder are set up
FetchResolves ==
  /\ cliPc = "fetch"
  /\ response # NoResponse
  /\ IF response.status # "200"
     THEN /\ generationProgress' =
               ErrorProgress(FetchFailedMessage(response.status, response.body))
          /\ timers' = timers + 1
          /\ isGenerating' = FALSE
          /\ cliPc' = "finished"
          /\ UNCHANGED <<buffer, decoderPending>>
     ELSE /\ buffer' = ""
          /\ decoderPending' = ""
          /\ cliPc' = "reading"
          /\ UNCHANGED <<generationProgress, timers, isGenerating>>
  /\ UNCHANGED <<lastSelectedFile, generatedPoses, generatedImages, frames, idGen,
                 received, dispatched>>
  /\ UNCHANGED srvVars
  /\ UNCHANGED playVars

\* reader.read() resolves with the next k bytes and the loop body runs
ReaderRead ==
  /\ cliPc = "reading"
  /\ net # ""
  /\ \E k \in (1..MaxChunk) \cup {Len(net)} :
        /\ k <= Len(net)
        /\ LET value == SubSeq(net, 1, k)
               d == ReadChunk([buffer |-> buffer, pending |-> decoderPending,
                               c |-> Cli], value)
           IN /\ SetCli(d)
              /\ received' = received \o value
              /\ net' = SubSeq(net, k + 1, Len(net))
  /\ UNCHANGED <<cliPc, lastSelectedFile, isGenerating>>
  /\ UNCHANGED <<request, response, srvPc, imgBuffer, posesJson, poseIdx, stream,
                 sent, emitted, calls, plannerResult, renderResults>>
  /\ UNCHANGED playVars

\* ReaderDone without the finally block
ReaderDoneNoFinally ==
  /\ cliPc = "reading"
  /\ net = ""
  /\ stream = "closed"
  /\ cliPc' = "finished"
  /\ UNCHANGED <<lastSelectedFile, isGenerating, generationProgress, generatedPoses,
                 generatedImages, frames, buffer, decoderPending, timers, idGen,
                 received, dispatched>>
  /\ UNCHANGED srvVars
  /\ UNCHANGED playVars

\* ReaderDone handing what is left in the buffer to the switch
ReaderDoneFlushes ==
  /\ cliPc = "reading"
  /\ net = ""
  /\ stream = "closed"
  /\ SetCli([buffer |-> "", pending |-> decoderPending, c |-> ProcessPart(Cli, buffer)])
  /\ isGenerating' = FALSE
  /\ cliPc' = "finished"
  /\ UNCHANGED <<lastSelectedFile, received>>
  /\ UNCHANGED srvVars
  /\ UNCHANGED playVars

\* reader.read() resolves with done: break, finally
ReaderDone ==
  /\ cliPc = "reading"
  /\ net = ""
  /\ stream = "closed"
  /\ isGenerating' = FALSE
  /\ cliPc' = "finished"
  /\ UNCHANGED <<lastSelectedFile, generationProgress, generatedPoses,
                 generatedImages, frames, buffer, decoderPending, timers, idGen,
                 received, dispatched>>
  /\ UNCHANGED srvVars
  /\ UNCHANGED playVars

\* a setTimeout(() => setGenerationProgress(""), ...) fires
TimerFires ==
  /\ timers > 0
  /\ cliPc # "gone"
  /\ timers' = timers - 1
  /\ generationProgress' = ""
  /\ UNCHANGED <<cliPc, lastSelectedFile, isGenerating, generatedPoses,
                 generatedImages, frames, buffer, decoderPending, idGen, received,
                 dispatched>>
  /\ UNCHANGED srvVars
  /\ UNCHANGED playVars

\* The page goes away while the response is open: its state is discarded,
\* the stream is cancelled and the bytes in flight are dropped.
ClientDisconnect ==
  /\ cliPc \in {"fetch", "reading"}
  /\ stream = "readable"
  /\ stream' = "cancelled"
  /\ net' = ""
  /\ cliPc' = "gone"
  /\ lastSelectedFile' = NoFile
  /\ isGenerating' = FALSE
  /\ generationProgress' = ""
  /\ generatedPoses' = Null
  /\ generatedImages' = <<>>
  /\ frames' = <<>>
  /\ buffer' = ""
  /\ decoderPending' = ""
  /\ timers' = 0
  /\ idGen' = 0
  /\ received' = ""
  /\ dispatched' = <<>>
  /\ currentFrame' = 0
  /\ isPlaying' = FALSE
  /\ pendingCursor' = <<>>
  /\ UNCHANGED <<request, response, srvPc, imgBuffer, posesJson, poseIdx, sent,
                 emitted, calls, plannerResult, renderResults>>

\* --------------------------------------------------------- specification
Init ==
  /\ request = NoRequest
  /\ response = NoResponse
  /\ srvPc = "idle"
  /\ imgBuffer = ""
  /\ posesJson = <<>>
  /\ poseIdx = 0
  /\ stream = "none"
  /\ net = ""
  /\ sent = ""
  /\ emitted = <<>>
  /\ calls = <<>>
  /\ plannerResult = [state |-> "pending", poses |-> Undefined]
  /\ renderResults = <<>>
  /\ cliPc = "idle"
  /\ lastSelectedFile = NoFile
  /\ isGenerating = FALSE
  /\ generationProgress = ""
  /\ generatedPoses = Null
  /\ generatedImages = <<>>
  /\ frames = <<>>
  /\ buffer = ""
  /\ decoderPending = ""
  /\ timers = 0
  /\ idGen = 0
  /\ received = ""
  /\ dispatched = <<>>
  /\ currentFrame = 0
  /\ isPlaying = FALSE
  /\ pendingCursor = <<>>

Next ==
  \/ HandleFileSelection
  \/ GenerateAnimation
  \/ ApiPost
  \/ SrvPOST
  \/ PlannerReturns
  \/ PlannerThrows
  \/ RendererReturns
  \/ RendererThrows
  \/ FetchResolves
  \/ ReaderRead
  \/ ReaderDone
  \/ TimerFires
  \/ ClientDisconnect

Spec == Init /\ [][Next]_vars

\* ------------------------------------------------------------- playback
\* The updates of currentFrame.  A click is rendered before the next event
\* is handled; the update the interval makes waits for a render of its own,
\* and a click can be handled before it.  The handlers read currentFrame and
\* frames.length of the last render.  An update made while the interval's
\* update waits is applied to the rendered value at once and again, after
\* the interval's update, when that one is rendered.
\* update is [to |-> v], a value, or [by |-> d, n |-> length], the function
\* prev => (prev + d + length) % length
Updated(update, prev) ==
  IF "to" \in DOMAIN update THEN update.to ELSE (prev + update.by + update.n) % update.n

SetCursor(update) ==
  /\ currentFrame' = Updated(update, currentFrame)
  /\ pendingCursor' = [k \in DOMAIN pendingCursor |-> Updated(update, pendingCursor[k])]

\* removeFrame(frame.id), from the button on a frame of the timeline
RemoveFrame ==
  /\ cliPc # "gone"
  /\ \E i \in 1..Len(frames) :
        LET newFrames == SelectSeq(frames, LAMBDA frame : frame.id # frames[i].id)
        IN /\ frames' = newFrames
           /\ IF currentFrame >= Len(newFrames) /\ Len(newFrames) > 0
              THEN SetCursor([to |-> Len(newFrames) - 1])
              ELSE UNCHANGED <<currentFrame, pendingCursor>>
  /\ UNCHANGED <<cliPc, lastSelectedFile, isGenerating, generationProgress,
                 generatedPoses, generatedImages, buffer, decoderPending, timers,
                 idGen, received, dispatched, isPlaying>>
  /\ UNCHANGED srvVars

\* the state of the page but for the playback variables is left alone
OnlyPlayback ==
  /\ UNCHANGED <<cliPc, lastSelectedFile, isGenerating, generationProgress,
                 generatedPoses, generatedImages, frames, buffer, decoderPending,
                 timers, idGen, received, dispatched>>
  /\ UNCHANGED srvVars

NextFrame ==
  /\ cliPc # "gone"
  /\ Len(frames) # 0
  /\ SetCursor([by |-> 1, n |-> Len(frames)])
  /\ UNCHANGED isPlaying
  /\ OnlyPlayback

PrevFrame ==
  /\ cliPc # "gone"
  /\ Len(frames) # 0
  /\ SetCursor([by |-> -1, n |-> Len(frames)])
  /\ UNCHANGED isPlaying
  /\ OnlyPlayback

\* onClick={() => setCurrentFrame(index)} on a frame of the timeline
SelectFrame ==
  /\ cliPc # "gone"
  /\ \E index \in 0..(Len(frames) - 1) : SetCursor([to |-> index])
  /\ UNCHANGED isPlaying
  /\ OnlyPlayback

ResetAnimation ==
  /\ cliPc # "gone"
  /\ isPlaying' = FALSE
  /\ SetCursor([to |-> 0])
  /\ OnlyPlayback

TogglePlayback ==
  /\ cliPc # "gone"
  /\ Len(frames) # 0
  /\ isPlaying' = ~isPlaying
  /\ UNCHANGED <<currentFrame, pendingCursor>>
  /\ OnlyPlayback

\* the interval of the animation loop fires; the effect keeps an interval
\* only while isPlaying and frames.length > 0, and sets it up again, with the
\* new length, whenever frames.length changes.  The callback only queues
\* its update; one update waits at a time.
PlaybackTick ==
  /\ cliPc # "gone"
  /\ isPlaying
  /\ Len(frames) > 0
  /\ pendingCursor = <<>>
  /\ pendingCursor' = <<Updated([by |-> 1, n |-> Len(frames)], currentFrame)>>
  /\ UNCHANGED <<currentFrame, isPlaying>>
  /\ OnlyPlayback

\* the render of the update the interval queued
RenderTick ==
  /\ cliPc # "gone"
  /\ pendingCursor # <<>>
  /\ currentFrame' = pendingCursor[1]
  /\ pendingCursor' = <<>>
  /\ UNCHANGED isPlaying
  /\ OnlyPlayback

\* the timeline and the player at work while a response body is read
NextPlayback ==
  \/ ReaderRead
  \/ ReaderDone
  \/ TimerFires
  \/ RemoveFrame
  \/ NextFrame
  \/ PrevFrame
  \/ SelectFrame
  \/ ResetAnimation
  \/ TogglePlayback
  \/ PlaybackTick
  \/ RenderTick

\* ------------------------------------------- failures of the transport
FetchFailedToConnect == "Failed to fetch"
ReadFailedMessage == "network error"
PayloadTooLarge == [status |-> "413", body |-> "Request Entity Too Large"]

\* `await fetch` rejects, the request never reached POST: catch, finally
FetchRejects ==
  /\ cliPc = "fetch"
  /\ srvPc = "idle"
  /\ request' = NoRequest
  /\ generationProgress' = ErrorProgress(FetchFailedToConnect)
  /\ timers' = timers + 1
  /\ isGenerating' = FALSE
  /\ cliPc' = "finished"
  /\ UNCHANGED <<lastSelectedFile, generatedPoses, generatedImages, frames, buffer,
                 decoderPending, idGen, received, dispatched>>
  /\ UNCHANGED <<response, srvPc, imgBuffer, posesJson, poseIdx, stream, net, sent,
                 emitted, calls, plannerResult, renderResults>>
  /\ UNCHANGED playVars

\* the host answers the upload itself with a status that is not ok; POST
\* does not run
HostRejects ==
  /\ cliPc = "fetch"
  /\ srvPc = "idle"
  /\ response' = PayloadTooLarge
  /\ srvPc' = "rejected"
  /\ UNCHANGED <<request, imgBuffer, posesJson, poseIdx, stream, net, sent, emitted,
                 calls, plannerResult, renderResults>>
  /\ UNCHANGED cliVars

\* `await reader.read()` rejects, the connection broke: catch, finally.
\* The server's stream is cancelled and the bytes in flight are lost.
ReaderThrows ==
  /\ cliPc = "reading"
  /\ stream \in {"readable", "closed"}
  /\ stream' = IF stream = "readable" THEN "cancelled" ELSE stream
  /\ net' = ""
  /\ generationProgress' = ErrorProgress(ReadFailedMessage)
  /\ timers' = timers + 1
  /\ isGenerating' = FALSE
  /\ cliPc' = "finished"
  /\ UNCHANGED <<lastSelectedFile, generatedPoses, generatedImages, frames, buffer,
                 decoderPending, idGen, received, dispatched>>
  /\ UNCHANGED <<request, response, srvPc, imgBuffer, posesJson, poseIdx, sent,
                 emitted, calls, plannerResult, renderResults>>
  /\ UNCHANGED playVars

NextLive ==
  \/ Next
  \/ FetchRejects
  \/ HostRejects
  \/ ReaderThrows

\* `await generatePosesFromImageBuffer(...)` settles: the step PlannerReturns
\* or PlannerThrows, seen through the outcome it records
PlannerSettles ==
  /\ srvPc = "planner"
  /\ plannerResult' \in {[state |-> "threw", poses |-> Undefined]}
                        \cup {[state |-> "returned", poses |-> poses] : poses \in PlannerOutputs}

\* `await nanobanana(...)` settles: the step RendererReturns or
\* RendererThrows, seen through the outcome it records
RendererSettles ==
  /\ srvPc = "renderer"
  /\ renderResults' \in {Append(renderResults, r) : r \in {"image", "text", "throw"}}

\* `await reader.read()` resolves with bytes: the step ReaderRead, seen
\* through the bytes it takes
ReaderGetsBytes ==
  /\ cliPc = "reading"
  /\ net # ""
  /\ received' \in {received \o SubSeq(net, 1, k) :
                       k \in {j \in (1..MaxChunk) \cup {Len(net)} : j <= Len(net)}}

\* Every awaited promise settles: POST answers, the remote calls resolve or
\* reject, fetch resolves once there is a response, reader.read() resolves
\* once there are bytes or the stream is closed.
LiveSpec ==
  /\ Init
  /\ [][NextLive]_vars
  /\ WF_vars(SrvPOST)
  /\ WF_plannerResult(PlannerSettles)
  /\ WF_renderResults(RendererSettles)
  /\ WF_vars(FetchResolves)
  /\ WF_received(ReaderGetsBytes)
  /\ WF_vars(ReaderDone)

\* ------------------------------------------------- a second generation
\* what an earlier generation left on the page: its poses, its images and
\* the two frames it appended
PriorPoses == Str("[{\"pose\":\"wave\"},{\"pose\":\"bow\"}]")
PriorImages == <<"data:image/png;base64,Vw==", "data:image/gif;base64,WA==">>
PriorFrames ==
  <<[id |-> 1, url |-> PriorImages[1], type |-> "image/png"],
    [id |-> 2, url |-> PriorImages[2], type |-> "image/gif"]>>

\* The page after a generation has ended and its status line was cleared;
\* the file is still selected and no request is under way.
InitAgain ==
  /\ request = NoRequest
  /\ response = NoResponse
  /\ srvPc = "idle"
  /\ imgBuffer = ""
  /\ posesJson = <<>>
  /\ poseIdx = 0
  /\ stream = "none"
  /\ net = ""
  /\ sent = ""
  /\ emitted = <<>>
  /\ calls = <<>>
  /\ plannerResult = [state |-> "pending", poses |-> Undefined]
  /\ renderResults = <<>>
  /\ cliPc = "idle"
  /\ lastSelectedFile = SourceFile
  /\ isGenerating = FALSE
  /\ generationProgress = ""
  /\ generatedPoses = PriorPoses
  /\ generatedImages = PriorImages
  /\ frames = PriorFrames
  /\ buffer = ""
  /\ decoderPending = ""
  /\ timers = 0
  /\ idGen = 2
  /\ received = ""
  /\ dispatched = <<>>
  /\ currentFrame = 0
  /\ isPlaying = FALSE
  /\ pendingCursor = <<>>

\* the next request and its ways to fail; the file stays selected
NextAgain ==
  \/ GenerateAnimation
  \/ ApiPost
  \/ SrvPOST
  \/ PlannerReturns
  \/ PlannerThrows
  \/ RendererReturns
  \/ RendererThrows
  \/ FetchResolves
  \/ ReaderRead
  \/ ReaderDone
  \/ TimerFires
  \/ ClientDisconnect
  \/ FetchRejects
  \/ HostRejects
  \/ ReaderThrows

AgainSpec == InitAgain /\ [][NextAgain]_vars

\* ------------------------------------------------ the read loop on its own
\* The read loop works on whatever bytes response.body delivers.  Here the
\* body is an input: event payloads as the route writes them, mixed with
\* payloads JSON.parse rejects (cut short, not JSON at all, a lone quote).
FrameBytes(base64ImageData, contentType) ==
  EncodeEvent("nanobanana",
              Obj(<<"type", "base64ImageData", "contentType">>,
                  <<Str("image"), Str(base64ImageData), Str(contentType)>>))

CutShort == "{\"type\":\"nanobanana\",\"data\":{\"type\":\"image\",\"base64ImageData\":\"QQ"

ResponseBodies ==
  {EncodeEvent("poses", Str("[]")) \o CutShort \o Delim
     \o FrameBytes("QQ==", "image/jpeg") \o FrameBytes("Qg==", "image/png")
     \o EncodeEvent("complete", Str(CompleteData)),
   EncodeUtf8("<html>plié</html>") \o Delim \o FrameBytes("QQ==", "image/jpeg")
     \o "\"" \o Delim \o FrameBytes("Qg==", "image/png"),
   FrameBytes("QQ==", "image/jpeg") \o "{\"type\":" \o Delim \o "\n",
   EncodeEvent("poses", Str("[]")) \o FrameBytes("QQ==", "image/jpeg")
     \o FrameBytes("Qg==", "image/png") \o FrameBytes("Qw==", "image/webp")
     \o EncodeEvent("complete", Str(CompleteData)),
   FrameBytes("QQ==", "image/jpeg")
     \o JSONStringify(Obj(<<"type", "data">>, <<Str("complete"), Str(CompleteData)>>))}

\* generateAnimation has its reader and a response body is on its way
InitReadLoop ==
  /\ request = [from |-> "page", image |-> SourceFile.name]
  /\ response = [status |-> "200", body |-> ""]
  /\ srvPc = "done"
  /\ imgBuffer = SourceFile.name
  /\ posesJson = <<>>
  /\ poseIdx = 0
  /\ stream = "closed"
  /\ net \in ResponseBodies
  /\ sent = net
  /\ emitted = <<>>
  /\ calls = <<>>
  /\ plannerResult = [state |-> "pending", poses |-> Undefined]
  /\ renderResults = <<>>
  /\ cliPc = "reading"
  /\ lastSelectedFile = SourceFile
  /\ isGenerating = TRUE
  /\ generationProgress = StartingProgress
  /\ generatedPoses = Null
  /\ generatedImages = <<>>
  /\ frames = <<>>
  /\ buffer = ""
  /\ decoderPending = ""
  /\ timers = 0
  /\ idGen = 0
  /\ received = ""
  /\ dispatched = <<>>
  /\ currentFrame = 0
  /\ isPlaying = FALSE
  /\ pendingCursor = <<>>

NextReadLoop ==
  \/ ReaderRead
  \/ ReaderDone
  \/ TimerFires

ReadLoopSpec == InitReadLoop /\ [][NextReadLoop]_vars

\* the read loop with the timeline and the player at work
PlaybackSpec == InitReadLoop /\ [][NextPlayback]_vars

\* ----------------------------------------------------------------- claims
IsTerminal(e) == e.type \in {"complete", "error"}
Terminals == {i \in 1..Len(emitted) : IsTerminal(emitted[i])}
ErrorEvents == {i \in 1..Len(emitted) : emitted[i].type = "error"}
FrameEvents == SelectSeq(emitted, LAMBDA e : e.type = "nanobanana")
RendererCalls == SelectSeq(calls, LAMBDA c : c.fn = "nanobanana")
\* start() has run to its end on a transport the client did not abandon
ServedToEnd == srvPc = "done" /\ stream # "cancelled"

\* C1: whatever the planner and renderer calls do, the server emits at most
\* one terminal event, it is the last event, the stream is closed in the same
\* step, and a request served to its end has emitted exactly one.
C1_OneTerminalThenClosed ==
  /\ Cardinality(Terminals) <= 1
  /\ \A i \in Terminals : i = Len(emitted) /\ stream = "closed" /\ srvPc = "done"
  /\ ServedToEnd => Cardinality(Terminals) = 1 /\ stream = "closed"

\* C1 witness: a text fallback, then a renderer exception, ended by error
C1_Witness ==
  /\ ServedToEnd
  /\ Len(renderResults) = 2
  /\ renderResults[1] = "text"
  /\ renderResults[2] = "throw"
  /\ emitted[Len(emitted)].type = "error"

\* C2 (as claimed): when a nanobanana call throws, the stream does not end
\* with error; every pose is still attempted and the stream ends with complete.
C2_RendererFailureContinues ==
  (ServedToEnd /\ \E i \in 1..Len(renderResults) : renderResults[i] = "throw")
    => /\ ErrorEvents = {}
       /\ emitted[Len(emitted)].type = "complete"
       /\ Len(renderResults) = Len(posesJson)

\* C3 (as claimed): once the client has decoded an error event it has stopped
\* reading and the status shows the event's message (until the timer that
\* clears the status fires).
C3_ErrorEventShown ==
  \A i \in 1..Len(dispatched) :
    Get(dispatched[i], "type") = Str("error")
      => /\ cliPc = "finished"
         /\ generationProgress \in {ErrorProgress(ToStr(Get(dispatched[i], "data"))), ""}

\* a frame event the client turns into a frame: its payload is not empty
Displayable(e) == Truthy(Get(e.data, "base64ImageData"))
DisplayableFrames == SelectSeq(FrameEvents, Displayable)

\* C4: the frame events are at most one per planned pose, belong to poses
\* whose render gave an image, and come in increasing pose order; the frames
\* of the client are, in the same order, the first of the frame events that
\* carry a payload.
C4_FramesInPoseOrder ==
  /\ Len(FrameEvents) <= Len(posesJson)
  /\ \A i \in 1..Len(FrameEvents) :
        /\ FrameEvents[i].pose \in 1..Len(posesJson)
        /\ renderResults[FrameEvents[i].pose] = "image"
        /\ \A j \in 1..Len(FrameEvents) : i < j => FrameEvents[i].pose < FrameEvents[j].pose
  /\ Len(frames) <= Len(DisplayableFrames)
  /\ \A j \in 1..Len(frames) :
        frames[j].url = DataUrl(Get(DisplayableFrames[j].data, "contentType"),
                                Get(DisplayableFrames[j].data, "base64ImageData"))

\* C4 witness: two poses, two different images, both arrived
C4_Witness ==
  /\ cliPc = "finished"
  /\ Len(posesJson) = 2
  /\ Len(frames) = 2
  /\ frames[1].url # frames[2].url

\* C5 (as claimed): every stream served to its end starts with the poses
\* event, continues with frame events only and ends with the terminal event.
C5_PosesAlwaysFirst ==
  ServedToEnd
    => /\ Len(emitted) >= 2
       /\ emitted[1].type = "poses"
       /\ \A i \in 2..(Len(emitted) - 1) : emitted[i].type = "nanobanana"
       /\ IsTerminal(emitted[Len(emitted)])

\* C5 (amended): a poses event is only ever the first event; it is there when
\* the planner call returned and absent when it threw; between it and the
\* terminal event there are only frame events; a stream served to its end
\* has exactly one terminal event, the last one.
C5_StreamShape ==
  /\ \A i \in 1..Len(emitted) :
        /\ emitted[i].type = "poses" => i = 1
        /\ emitted[i].type = "nanobanana" => i > 1 /\ emitted[1].type = "poses"
        /\ IsTerminal(emitted[i]) => i = Len(emitted)
        /\ emitted[i].type \in {"poses", "nanobanana", "complete", "error"}
  /\ plannerResult.state = "threw" => \A i \in 1..Len(emitted) : emitted[i].type = "error"
  /\ (plannerResult.state = "returned" /\ emitted # <<>>) => emitted[1].type = "poses"
  /\ ServedToEnd
       => /\ Cardinality(Terminals) = 1
          /\ plannerResult.state = "returned" => emitted[1].type = "poses"

\* C5 witness: the planner threw and the whole stream is one error event
C5_Witness ==
  /\ ServedToEnd
  /\ plannerResult.state = "threw"
  /\ Len(emitted) = 1
  /\ emitted[1].type = "error"

\* the planner output does not parse
Unparseable ==
  /\ plannerResult.state = "returned"
  /\ plannerResult.poses.t = "string"
  /\ ~JSONParse(plannerResult.poses.s).ok
\* the planner output parses to something that is not an array
NotAnArray ==
  /\ plannerResult.state = "returned"
  /\ plannerResult.poses.t = "string"
  /\ LET parsed == JSONParse(plannerResult.poses.s)
     IN parsed.ok /\ parsed.v.t # "array"
DispatchedOfType(type) == {i \in 1..Len(dispatched) : Get(dispatched[i], "type") = Str(type)}

\* C6: when the planner call throws or returns text that does not parse, no
\* renderer call is made, no frame event is emitted or received, and the
\* stream carries exactly one error event and no complete event.
C6_PlannerFailureIsOneError ==
  (plannerResult.state = "threw" \/ Unparseable)
    => /\ RendererCalls = <<>>
       /\ FrameEvents = <<>>
       /\ frames = <<>>
       /\ DispatchedOfType("nanobanana") = {}
       /\ Cardinality(ErrorEvents) <= 1
       /\ ServedToEnd => /\ Cardinality(ErrorEvents) = 1
                         /\ emitted[Len(emitted)].type = "error"
       /\ (cliPc = "finished" /\ response.status = "200")
            => Cardinality(DispatchedOfType("error")) = 1

\* C6 witness: unparseable planner text, the client has read the whole stream
C6_Witness ==
  /\ Unparseable
  /\ cliPc = "finished"
  /\ Len(dispatched) = 2
  /\ Get(dispatched[2], "type") = Str("error")

\* C7 (as claimed): a planner output that does not parse, or parses to a
\* non-array, gives zero renderer calls and a stream that ends with complete.
C7_BadPosesEndComplete ==
  (ServedToEnd /\ (Unparseable \/ NotAnArray))
    => /\ RendererCalls = <<>>
       /\ ErrorEvents = {}
       /\ emitted[Len(emitted)].type = "complete"

\* C7 (amended): a planner output that parses to a non-array gives zero
\* renderer calls and a stream that ends with complete; one that does not
\* parse gives zero renderer calls and a stream that ends with error.
C7_NonArrayEndsComplete ==
  /\ (ServedToEnd /\ NotAnArray)
       => /\ RendererCalls = <<>>
          /\ ErrorEvents = {}
          /\ emitted[Len(emitted)].type = "complete"
  /\ (ServedToEnd /\ Unparseable)
       => /\ RendererCalls = <<>>
          /\ emitted[Len(emitted)].type = "error"

\* C7 witness: the planner returned a JSON object, the stream is poses, complete
C7_Witness ==
  /\ ServedToEnd
  /\ NotAnArray
  /\ Len(emitted) = 2
  /\ emitted[2].type = "complete"

\* the page's read loop is running or has ended on a streamed response
Streaming == cliPc \in {"reading", "finished"} /\ response.status = "200"
\* the read-loop state right after generateAnimation set it up
FreshDecoder ==
  [buffer |-> "", pending |-> "",
   c |-> [generationProgress |-> StartingProgress, generatedPoses |-> Null,
          generatedImages |-> <<>>, frames |-> <<>>, timers |-> 0, idGen |-> 0,
          dispatched |-> <<>>]]
\* the outcome of handing every byte received so far to the loop as one chunk
InOnePiece == ReadChunk(FreshDecoder, received)

\* C8: however the bytes received so far were cut into chunks, the events
\* dispatched, the frame list and the retained buffer are those obtained by
\* feeding the same bytes in one piece.
C8_ChunkingIrrelevant ==
  Streaming
    => LET whole == InOnePiece
       IN /\ dispatched = whole.c.dispatched
          /\ frames = whole.c.frames
          /\ generatedImages = whole.c.generatedImages
          /\ generatedPoses = whole.c.generatedPoses
          /\ buffer = whole.buffer
          /\ decoderPending = whole.pending

\* C8 witness: after a first dispatched event a chunk ended between the two
\* bytes of a character inside a payload, and the stream was later read to
\* its end with two events dispatched
C8_Witness ==
  /\ cliPc = "reading"
  /\ Len(dispatched) = 1
  /\ decoderPending = "Ã"
  /\ buffer # ""

\* the serialized payload of an emitted event
Payload(e) == JSONStringify(Obj(<<"type", "data">>, <<Str(e.type), e.data>>))
\* the text of everything enqueued
SentText == DecodeBytes(sent, FALSE).text

\* C9: the delimiter occurs in no serialized payload, and splitting the
\* emitted text on the delimiter gives back exactly the payloads, one per
\* event, followed by an empty rest.
C9_DelimiterNeverInPayload ==
  LET parts == Split(SentText, Delim)
  IN /\ Len(parts) = Len(emitted) + 1
     /\ parts[Len(parts)] = ""
     /\ \A i \in 1..Len(emitted) :
          LET payload == Payload(emitted[i])
          IN IndexOf(payload, Delim) = 0 /\ parts[i] = payload

\* C9 witness: an emitted event whose data contains the delimiter itself
C9_Witness ==
  \E i \in 1..Len(emitted) :
    /\ emitted[i].data.t = "string"
    /\ IndexOf(emitted[i].data.s, Delim) > 0
    /\ emitted[i].type = "error"

\* the parsed payload v has the kind and the data of the emitted event e
SameEvent(v, e) ==
  /\ Get(v, "type") = Str(e.type)
  /\ IF e.data.t = "object"
     THEN /\ Get(v, "data").t = "object"
          /\ \A key \in {"type", "base64ImageData", "contentType"} :
                Get(Get(v, "data"), key) = Get(e.data, key)
     ELSE Get(v, "data") = e.data

\* C10 (as claimed): after the stream was read to its end the client has
\* dispatched the emitted events, and every frame event has become the frame
\* at the same position, with the emitted content type and payload in its URL.
C10_EveryFrameEventBecomesAFrame ==
  Streaming
    => /\ Len(dispatched) <= Len(emitted)
       /\ \A i \in 1..Len(dispatched) : SameEvent(dispatched[i], emitted[i])
       /\ cliPc = "finished"
            => /\ Len(dispatched) = Len(emitted)
               /\ Len(frames) = Len(FrameEvents)
               /\ \A j \in 1..Len(frames) :
                     LET ct == Get(FrameEvents[j].data, "contentType")
                         b64 == Get(FrameEvents[j].data, "base64ImageData")
                     IN /\ ct.t = "string"
                        /\ b64.t = "string"
                        /\ frames[j].url = "data:" \o ct.s \o ";base64," \o b64.s

\* C10 (amended): the client dispatches the emitted events, kind and payload
\* unchanged and in order; the frame events with a non-empty payload become,
\* in order, the frames, whose URL carries that payload and the emitted
\* content type, or image/png when the event has none; a frame event with an
\* empty payload gives no frame.
C10_RoundTrip ==
  Streaming
    => /\ Len(dispatched) <= Len(emitted)
       /\ \A i \in 1..Len(dispatched) : SameEvent(dispatched[i], emitted[i])
       /\ Len(frames) <= Len(DisplayableFrames)
       /\ \A j \in 1..Len(frames) :
             LET ct == Get(DisplayableFrames[j].data, "contentType")
                 b64 == Get(DisplayableFrames[j].data, "base64ImageData")
             IN frames[j].url =
                  "data:" \o (IF ct.t = "string" /\ ct.s # "" THEN ct.s ELSE "image/png")
                  \o ";base64," \o b64.s
       /\ cliPc = "finished"
            => /\ Len(dispatched) = Len(emitted)
               /\ Len(frames) = Len(DisplayableFrames)

\* C10 witness: two frame events read to the end, one with an empty payload,
\* the other without content type, and one frame
C10_Witness ==
  /\ cliPc = "finished"
  /\ Len(FrameEvents) = 2
  /\ Len(frames) = 1
  /\ frames[1].type = "image/png"
  /\ \E j \in 1..2 : Get(FrameEvents[j].data, "contentType") = Undefined

\* the payloads received so far with their delimiter, trimmed
ReceivedLines ==
  LET parts == Split(DecodeBytes(received, TRUE).text, Delim)
  IN [i \in 1..(Len(parts) - 1) |-> Trim(parts[i])]
\* line is a payload JSON.parse rejects
Malformed(line) == line # "" /\ ~JSONParse(line).ok
\* line is a frame event with an image payload
WellFormedFrame(line) ==
  LET parsed == JSONParse(line)
  IN /\ parsed.ok
     /\ parsed.v.t = "object"
     /\ Get(parsed.v, "type") = Str("nanobanana")
     /\ Get(Get(parsed.v, "data"), "type") = Str("image")
     /\ Truthy(Get(Get(parsed.v, "data"), "base64ImageData"))

\* C11: whatever payloads JSON.parse rejected on the way, the payloads
\* dispatched are exactly the received payloads that parse, in order, and
\* the frame list holds exactly the well-formed frame events received, in
\* order: a malformed payload loses nothing that follows it.
C11_MalformedPayloadSkipped ==
  LET lines == ReceivedLines
      good == SelectSeq(lines, LAMBDA l : l # "" /\ JSONParse(l).ok)
      shown == SelectSeq(lines, WellFormedFrame)
  IN /\ Len(dispatched) = Len(good)
     /\ \A i \in 1..Len(good) : dispatched[i] = JSONParse(good[i]).v
     /\ Len(frames) = Len(shown)
     /\ \A j \in 1..Len(shown) :
           LET d == Get(JSONParse(shown[j]).v, "data")
           IN frames[j].url = DataUrl(Get(d, "contentType"), Get(d, "base64ImageData"))

\* C11 witness: a payload cut short came before two frame events and the
\* complete event, and the stream was read to its end with both frames shown
C11_Witness ==
  /\ cliPc = "finished"
  /\ Len(ReceivedLines) = 5
  /\ Malformed(ReceivedLines[2])
  /\ WellFormedFrame(ReceivedLines[3])
  /\ WellFormedFrame(ReceivedLines[4])
  /\ Len(frames) = 2
  /\ generationProgress = CompleteProgress

\* C12: a request without an image gets the 400 response with the error
\* body and nothing else: no stream is opened, no planner or renderer call is
\* made, no event is emitted and no byte is written.
C12_NoImageRejected ==
  (request # NoRequest /\ request.image = "")
    => /\ stream = "none"
       /\ calls = <<>>
       /\ emitted = <<>>
       /\ sent = ""
       /\ srvPc \in {"idle", "rejected"}
       /\ srvPc = "idle" => response = NoResponse
       /\ srvPc = "rejected" => response = [status |-> "400", body |-> NoImageBody]

\* C12 witness: POST has answered a request without an image
C12_Witness ==
  /\ request.image = ""
  /\ srvPc = "rejected"
  /\ response.status = "400"
  /\ response.body = "{\"error\":\"No image provided\"}"

\* the remote calls that have resolved or rejected
Completed == (IF plannerResult.state = "pending" THEN 0 ELSE 1) + Len(renderResults)
\* the remote calls started and not yet settled
InFlight == Len(calls) - Completed

\* C13: at most one remote call is in flight, and one is in flight exactly
\* while start() waits for it; the planner call is the first call; the
\* renderer calls are made for poses 1, 2, ... in this order, each one only
\* after the planner call returned and the calls for all earlier poses have
\* settled.
C13_OneCallInFlight ==
  /\ InFlight \in {0, 1}
  /\ InFlight = 1 <=> srvPc \in {"planner", "renderer"}
  /\ \A k \in 1..Len(calls) : calls[k].fn = "generatePosesFromImageBuffer" <=> k = 1
  /\ \A j \in 1..Len(RendererCalls) :
        /\ RendererCalls[j].pose = j
        /\ plannerResult.state = "returned"
        /\ Len(renderResults) >= j - 1

\* C13 witness: the call for pose 2 is in flight and the call for pose 1 has
\* settled
C13_Witness ==
  /\ srvPc = "renderer"
  /\ Len(RendererCalls) = 2
  /\ Len(renderResults) = 1
  /\ InFlight = 1

\* C14 (as claimed): once the client has gone away and the stream is
\* cancelled, no step of the server starts another remote call.
C14_NoCallAfterDisconnect == [][stream = "cancelled" => calls' = calls]_vars

\* C15: when nanobanana resolved with a text result for pose i, no event is
\* emitted for pose i, the call for pose i + 1 is made when there is such a
\* pose, and a stream served to its end without a renderer exception has
\* attempted every pose and ends with complete and without error.
C15_TextResultSkipped ==
  \A i \in 1..Len(renderResults) :
    renderResults[i] = "text"
      => /\ \A k \in 1..Len(emitted) : emitted[k].pose # i
         /\ i < Len(posesJson) => Len(RendererCalls) >= i + 1
         /\ (ServedToEnd /\ \A j \in 1..Len(renderResults) : renderResults[j] # "throw")
              => /\ Len(renderResults) = Len(posesJson)
                 /\ ErrorEvents = {}
                 /\ emitted[Len(emitted)].type = "complete"

\* C15 witness: text for pose 1, an image for pose 2, and the stream is
\* poses, the frame of pose 2, complete
C15_Witness ==
  /\ ServedToEnd
  /\ renderResults = <<"text", "image">>
  /\ Len(emitted) = 3
  /\ emitted[2].type = "nanobanana"
  /\ emitted[2].pose = 2
  /\ emitted[3].type = "complete"

\* the planner returned two poses and both nanobanana calls resolved with an
\* image that has data
TwoPosesBothRendered ==
  /\ plannerResult = [state |-> "returned", poses |-> Str(PosesText(2))]
  /\ renderResults = <<"image", "image">>
  /\ Len(DisplayableFrames) = 2

\* C16: when the planner returned two poses, both renders gave an image and
\* the client has read the stream to its end, the client has exactly two
\* frames, the first from pose 1 and the second from pose 2, the last event
\* it dispatched is complete, no error was dispatched, the status shows the
\* completion message (until its timer clears it) and isGenerating is off.
C16_TwoPosesTwoFrames ==
  (TwoPosesBothRendered /\ cliPc = "finished")
    => /\ Len(frames) = 2
       /\ Len(generatedImages) = 2
       /\ \A j \in 1..2 :
             /\ FrameEvents[j].pose = j
             /\ frames[j].url = DataUrl(Get(FrameEvents[j].data, "contentType"),
                                        Get(FrameEvents[j].data, "base64ImageData"))
             /\ generatedImages[j] = frames[j].url
       /\ Len(dispatched) = 4
       /\ Get(dispatched[4], "type") = Str("complete")
       /\ DispatchedOfType("error") = {}
       /\ \/ generationProgress = CompleteProgress /\ timers = 1
          \/ generationProgress = "" /\ timers = 0
       /\ ~isGenerating

\* C16 witness: scenario A read to its end, two different frames, the
\* completion message on screen
C16_Witness ==
  /\ TwoPosesBothRendered
  /\ cliPc = "finished"
  /\ frames[1].url = "data:image/jpeg;base64,QQ=="
  /\ frames[2].url = "data:image/png;base64,Qg=="
  /\ generationProgress = CompleteProgress

PlannerCalls == SelectSeq(calls, LAMBDA c : c.fn = "generatePosesFromImageBuffer")

\* C17: a request that passed the image test has made exactly one planner
\* call, any other none.  Once the planner returned, and unless the client
\* had gone by then, the first event is the poses event, its data is the
\* planner output as returned and its bytes are the first bytes written; it
\* is there whether or not the output parses, and every renderer call began
\* after it was enqueued.
C17_PlannerOnceThenPoses ==
  /\ Len(PlannerCalls) = (IF srvPc \in {"idle", "rejected"} THEN 0 ELSE 1)
  /\ plannerResult.state # "returned" => RendererCalls = <<>>
  /\ plannerResult.state = "returned"
       => \/ /\ emitted = <<>>
             /\ stream = "cancelled"
             /\ RendererCalls = <<>>
          \/ /\ emitted # <<>>
             /\ emitted[1] = [type |-> "poses", pose |-> 0, data |-> plannerResult.poses]
             /\ LET bytes == EncodeEvent("poses", plannerResult.poses)
                IN SubSeq(sent, 1, Len(bytes)) = bytes
             /\ \A j \in 1..Len(RendererCalls) : RendererCalls[j].after >= 1

\* C17 witness: the planner output does not parse, and the poses event with
\* that very text was written before the error event
C17_Witness ==
  /\ Unparseable
  /\ Len(emitted) = 2
  /\ emitted[1].type = "poses"
  /\ emitted[1].data = Str("[{\"pose\":")
  /\ emitted[2].type = "error"

\* the number of delimiters among the bytes the reader has returned
DelimitersReceived ==
  Cardinality({i \in 1..(Len(received) - Len(Delim) + 1) :
                 Ch(received, i) = "\n" /\ SubSeq(received, i, i + Len(Delim) - 1) = Delim})

\* C18: when a renderer call begins, the poses event and the frame event of
\* every earlier pose that gave an image are already enqueued, and what is
\* enqueued is on the transport at once; the client's frame list holds the
\* frames of exactly the frame events whose delimiter it has received,
\* whether or not a terminal event has arrived.
C18_EventsNotBatched ==
  /\ \A j \in 1..Len(RendererCalls) :
        /\ RendererCalls[j].after
             = 1 + Cardinality({i \in 1..(j - 1) : renderResults[i] = "image"})
        /\ \A i \in 1..(j - 1) :
              renderResults[i] = "image"
                => \E k \in 1..RendererCalls[j].after :
                      emitted[k].type = "nanobanana" /\ emitted[k].pose = i
  /\ stream # "cancelled" => Len(sent) = Len(received) + Len(net)
  /\ Streaming
       => LET arrived == SubSeq(emitted, 1, DelimitersReceived)
          IN Len(frames)
               = Len(SelectSeq(arrived,
                               LAMBDA e : e.type = "nanobanana" /\ Displayable(e)))

\* C18 witness: the client shows the frame of pose 1 while the server still
\* waits for the renderer call of pose 2 and no terminal event exists
C18_Witness ==
  /\ cliPc = "reading"
  /\ Len(frames) = 1
  /\ srvPc = "renderer"
  /\ poseIdx = 2
  /\ Terminals = {}

\* the image payloads the renderer has produced so far
GeneratedData ==
  {ToStr(Get(FrameEvents[i].data, "base64ImageData")) : i \in 1..Len(FrameEvents)}

\* C19: the image handed to the planner call and to every renderer call is
\* the image of the request, never the payload of a generated frame, and
\* the buffer start() reads it from holds the image of the request from the
\* moment it is filled.
C19_SourceImageEveryCall ==
  /\ \A k \in 1..Len(calls) :
        /\ calls[k].image = request.image
        /\ calls[k].image \notin GeneratedData
  /\ srvPc \in {"planner", "renderer", "done"} => imgBuffer = request.image
  /\ srvPc \in {"idle", "rejected"} => imgBuffer = ""

\* C19 witness: pose 1 gave an image and the call for pose 2 was made with
\* the uploaded file
C19_Witness ==
  /\ Len(RendererCalls) = 2
  /\ renderResults[1] = "image"
  /\ Len(FrameEvents) = 1
  /\ RendererCalls[2].image = "hero.png"
  /\ RendererCalls[1].image = "hero.png"

\* C20: whenever isGenerating is on it is off again later, whichever way the
\* generation ends: the stream is read to its end after complete or after
\* error, the response is not ok, fetch or reader.read() rejects.
C20_IsGeneratingReturns == isGenerating ~> ~isGenerating

\* C20 witness: reader.read() rejected after events had been dispatched, and
\* isGenerating is off
C20_Witness ==
  /\ cliPc = "finished"
  /\ ~isGenerating
  /\ generationProgress = ErrorProgress(ReadFailedMessage)
  /\ Len(dispatched) >= 1
  /\ stream = "cancelled"

\* C21: the playback cursor is 0 while there is no frame and otherwise the
\* index of a frame, whatever appends, removals, steps, selections, resets
\* and ticks came before.
C21_CursorInRange ==
  IF Len(frames) = 0 THEN currentFrame = 0 ELSE currentFrame \in 0..(Len(frames) - 1)

\* C22: while the page is there, the frames an earlier generation appended
\* stay the first frames, unchanged and in their order, however the new
\* generation goes; until generateAnimation runs again the poses and images
\* of the earlier generation stay; once it runs, the poses are cleared or
\* those of the new generation, and the image list holds exactly the images
\* of the frames appended since, in order; no two frames share an id.
C22_FramesSurviveRegeneration ==
  cliPc # "gone"
    => /\ Len(frames) >= Len(PriorFrames)
       /\ SubSeq(frames, 1, Len(PriorFrames)) = PriorFrames
       /\ \A i, j \in 1..Len(frames) : frames[i].id = frames[j].id => i = j
       /\ cliPc = "idle"
            => /\ frames = PriorFrames
               /\ generatedPoses = PriorPoses
               /\ generatedImages = PriorImages
       /\ cliPc # "idle"
            => /\ generatedPoses # PriorPoses
               /\ DispatchedOfType("poses") = {} => generatedPoses = Null
               /\ Len(generatedImages) = Len(frames) - Len(PriorFrames)
               /\ \A j \in 1..Len(generatedImages) :
                     generatedImages[j] = frames[Len(PriorFrames) + j].url

\* C22 witness: the second generation appended one frame and then its
\* renderer failed; the page shows the two earlier frames and the new one
C22_Witness ==
  /\ cliPc = "finished"
  /\ renderResults = <<"image", "throw">>
  /\ Len(frames) = 3
  /\ frames[3].id = 3
  /\ generatedImages = <<frames[3].url>>
  /\ generatedPoses = Str(PosesText(2))

\* the text decoded from the bytes the reader has returned
ReceivedText == DecodeBytes(received, TRUE).text
\* the payloads received with their delimiter that JSON.parse accepts
Dispatchable == {i \in 1..Len(ReceivedLines) : ReceivedLines[i] # "" /\ JSONParse(ReceivedLines[i]).ok}

\* C23: while the body is read and after its end, the buffer is the text
\* received after the last delimiter the split consumed and holds no whole
\* delimiter; exactly the payloads whose delimiter has been received (and
\* that parse) have been dispatched, so nothing of the buffer has, also
\* when the stream has ended and the buffer is not empty.
C23_DispatchOnlyAfterDelimiter ==
  cliPc \in {"reading", "finished"}
    => LET text == ReceivedText
           cut == Len(text) - Len(buffer)
       IN /\ cut >= 0
          /\ SubSeq(text, cut + 1, Len(text)) = buffer
          /\ Len(Split(buffer, Delim)) = 1
          /\ cut > 0 => /\ cut >= Len(Delim)
                        /\ SubSeq(text, cut - Len(Delim) + 1, cut) = Delim
          /\ Len(dispatched) = Cardinality(Dispatchable)
          /\ \A k \in 1..Len(dispatched) :
               \E i \in Dispatchable : dispatched[k] = JSONParse(ReceivedLines[i]).v

\* C23 witness: the stream ended after a frame event and a whole complete
\* payload without its delimiter; the payload is still in the buffer, only
\* the frame was dispatched and the status never became the completion text
C23_Witness ==
  /\ cliPc = "finished"
  /\ buffer = JSONStringify(Obj(<<"type", "data">>, <<Str("complete"), Str(CompleteData)>>))
  /\ Len(dispatched) = 1
  /\ Len(frames) = 1
  /\ generationProgress # CompleteProgress

====
